---- MODULE Spec2Model ----
(***************************************************************************)
(* Model of the in-browser diagnostics script dev-diagnostics.js           *)
(* (src/unnamed/part_001).  One action per task of the browser's event     *)
(* loop: the DOMContentLoaded handler, a click on "Run checks again", the  *)
(* settlement of a fetch, the firing of a timer, the arrival of a response *)
(* body.  Every action runs the handler and all the code that follows the  *)
(* resumed await up to the next await of the same invocation.              *)
(*                                                                         *)
(* The environment (page scheme, navigator.onLine, how each probed         *)
(* endpoint behaves) is chosen in the initial state and stays unchanged    *)
(* during the page load.  Spec ranges over every environment and few       *)
(* invocations of runAllChecks; SpecRerun ranges over fewer environments   *)
(* and over reruns started while an earlier invocation is suspended;       *)
(* SpecLoad ranges over the stage of the page load at which the script is  *)
(* executed, over documents without a body and over clicks on the other    *)
(* buttons of the panel; SpecFair adds the fairness of the event loop;     *)
(* SpecSummary applies the heuristic step to the results of port lists of  *)
(* any length.  SpecHealth is the health widget app.js                     *)
(* (src/unnamed/part_000) in a page of its own, SpecRefresh the same with  *)
(* a backend that is started and stopped between requests.                 *)
(*                                                                         *)
(* The children of #dev-diagnostics-messages and #dev-diagnostics-actions  *)
(* are kept per invocation of runAllChecks: messages[r] is the sequence of *)
(* rows appended by invocation r that are in the container, in the order   *)
(* they were appended.  The relative order of rows of different            *)
(* invocations is not recorded.  Texts are those of the source, with the   *)
(* em dash written "-" and static help markup left out.                    *)
(***************************************************************************)
EXTENDS Integers, Sequences, FiniteSets, TLC

\* ------------------------------------------------------------------------
\* Bounds
\* ------------------------------------------------------------------------
\* invocations of runAllChecks during one page load, in Spec: every
\* environment, reruns one after the other
MaxRuns == 2

\* invocations of runAllChecks during one page load, in SpecRerun: fewer
\* environments, reruns that overlap
MaxRerunRuns == 3
\* invocations of runAllChecks in SpecLoad
MaxLoadRuns == 2
\* rows that button callbacks add between two reruns
MaxCallbackRows == 2
\* invocations of update() of the health widget
MaxUpdates == 2
\* length of the port list in SpecSummary
MaxPorts == 3

\* ------------------------------------------------------------------------
\* Configuration (part_001:23-27)
\* ------------------------------------------------------------------------
LOCAL_PORTS == <<5500, 3000, 8080>>

LOCAL_PATH == "/"

EXTERNAL_IP_URL == "https://api.ipify.org?format=json"

HEAD_URL == "https://example.com/"

\* the URL probed for a port; the cache-busting query value Date.now() is left out
LocalUrl(port) == "http://localhost:" \o ToString(port) \o LOCAL_PATH

Runs == 1..(IF MaxRuns > MaxRerunRuns THEN MaxRuns ELSE MaxRerunRuns)

\* the schemes a page load can have
Protocols == {"file:", "http:", "https:"}

\* how a probed endpoint behaves towards fetchWithTimeout:
\*   "ok"   the fetch promise fulfils before the timer
\*   "fail" the fetch promise rejects before the timer
\*   "slow" the timer fires first; the request settles later or never
ProbeKinds == {"ok", "fail", "slow"}

\* the external IP endpoint: as above, where an answer is one of
\*   "ip"      a JSON body with an ip field
\*   "noip"    a JSON body without an ip field
\*   "notjson" a body that res.json() rejects
\*   "stall"   headers arrive, the body never finishes
ExternalKinds == {"ip", "noip", "notjson", "stall", "fail", "slow"}

PUBLIC_IP == "203.0.113.45"

VARIABLES
  protocol,      \* location.protocol
  onLine,        \* navigator.onLine
  portEnv,       \* behaviour of each localhost port
  extEnv,        \* behaviour of the external IP endpoint
  headEnv,       \* behaviour of https://example.com/
  readyState,    \* document.readyState when the script was executed
  hasBody,       \* document.body is an element
  loaded,        \* DOMContentLoaded has been dispatched
  panel,         \* number of elements with id dev-diagnostics-panel
  nruns,         \* invocations of runAllChecks so far
  pc,            \* per invocation: the await it is suspended at
  idx,           \* per invocation: index into LOCAL_PORTS of the for loop
  localResults,  \* per invocation: results of checkLocalServers
  external,      \* per invocation: result of checkExternalConnectivity
  net,           \* per invocation: result of checkNetworkAdapter
  messages,      \* rows of #dev-diagnostics-messages, per invocation
  actions,       \* buttons of #dev-diagnostics-actions, per invocation
  issued,        \* per invocation: the URLs passed to fetch, in order
  inflight,      \* requests the network has not settled yet
  timers,        \* setTimeout timers that are armed
  overlapped,    \* a rerun was started while an invocation was suspended
  extra,         \* rows of #dev-diagnostics-messages added by button callbacks
  errorLog,      \* what logError has written to the console
  BACKEND_BASE,  \* window.__BACKEND_URL__ || '/'
  healthEnv,     \* behaviour of the three health endpoints
  appInit,       \* init() of the health widget: "pending", "ready", "failed"
  nupdates,      \* invocations of update() so far
  hpc,           \* per update: the await it is suspended at
  hidx,          \* per update: index into urlsToTry of the for loop
  lastErr,       \* per update: lastErr of fetchServerHealth
  hres,          \* per update: the kind of the response whose body is awaited
  hresult,       \* per update: what fetchServerHealth returned or threw
  hissued,       \* per update: the URLs passed to fetch, in order
  hinflight,     \* requests of the widget the network has not settled
  htimers,       \* armed abort timers of the widget
  statusText,    \* textContent of #server-status
  statusClass    \* classList of #server-status

healthVars == <<BACKEND_BASE, healthEnv, appInit, nupdates, hpc, hidx, lastErr,
                hres, hresult, hissued, hinflight, htimers, statusText,
                statusClass>>

vars == <<protocol, onLine, portEnv, extEnv, headEnv, readyState, hasBody,
          loaded, panel, nruns, pc, idx, localResults, external, net,
          messages, actions, issued, inflight, timers, overlapped, extra,
          errorLog, healthVars>>

envVars == <<protocol, onLine, portEnv, extEnv, headEnv, readyState, hasBody>>

\* no result yet
None == [none |-> TRUE]

Req(r, url) == [run |-> r, url |-> url]

RECURSIVE Join(_)
\* Array.prototype.join(', ') of an array of port numbers
Join(s) ==
  IF Len(s) = 0 THEN ""
  ELSE IF Len(s) = 1 THEN ToString(s[1])
  ELSE ToString(s[1]) \o ", " \o Join(Tail(s))

\* Array.prototype.filter
Filter(s, Test(_)) == SelectSeq(s, Test)

\* Array.prototype.every / some
Every(s, Test(_)) == \A i \in 1..Len(s) : Test(s[i])

Some(s, Test(_)) == \E i \in 1..Len(s) : Test(s[i])

\* ------------------------------------------------------------------------
\* The mutable state as one record, so that the statements of a handler
\* compose as in the source.
\* ------------------------------------------------------------------------
World ==
  [panel |-> panel, pc |-> pc, idx |-> idx, localResults |-> localResults,
   external |-> external, net |-> net, messages |-> messages,
   actions |-> actions, issued |-> issued, inflight |-> inflight,
   timers |-> timers, extra |-> extra, errorLog |-> errorLog,
   thrown |-> FALSE]

Commit(w) ==
  /\ panel' = w.panel
  /\ pc' = w.pc
  /\ idx' = w.idx
  /\ localResults' = w.localResults
  /\ external' = w.external
  /\ net' = w.net
  /\ messages' = w.messages
  /\ actions' = w.actions
  /\ issued' = w.issued
  /\ inflight' = w.inflight
  /\ timers' = w.timers
  /\ extra' = w.extra
  /\ errorLog' = w.errorLog

\* ------------------------------------------------------------------------
\* UI (part_001:43-96)
\* ------------------------------------------------------------------------
\* w.thrown: an exception is propagating; the statements that follow the
\* throwing one are skipped until a catch or the end of the task

\* variant: the lookup by id is left out
ensurePanel_AlwaysCreate(w) ==
  IF hasBody THEN [w EXCEPT !.panel = @ + 1] ELSE [w EXCEPT !.thrown = TRUE]

\* getElementById, else build the panel and document.body.appendChild(panel),
\* which throws a TypeError when document.body is null (part_001:43-76)
ensurePanel(w) ==
  IF w.panel > 0 THEN w
  ELSE IF hasBody THEN [w EXCEPT !.panel = @ + 1]
  ELSE [w EXCEPT !.thrown = TRUE]

addMessage(w, r, level, text, more) ==
  LET w1 == ensurePanel(w)
  IN IF w1.thrown THEN w1
     ELSE [w1 EXCEPT !.messages[r] =
             Append(@, [level |-> level, text |-> text, more |-> more])]

addActionButton(w, r, label, hint) ==
  LET w1 == ensurePanel(w)
  IN IF w1.thrown THEN w1
     ELSE [w1 EXCEPT !.actions[r] = Append(@, [label |-> label, hint |-> hint])]

\* part_001:31
logError(w, text) == [w EXCEPT !.errorLog = Append(@, text)]

\* ------------------------------------------------------------------------
\* fetchWithTimeout (part_001:35-40): arm the timer, issue the request
\* ------------------------------------------------------------------------
fetchWithTimeout(w, r, url) ==
  [w EXCEPT !.timers = @ \cup {Req(r, url)},
            !.inflight = @ \cup {Req(r, url)},
            !.issued[r] = Append(@, url)]

\* .then / .catch of the fetch promise: clearTimeout(timer), then settle
clearTimeout(w, r, url) == [w EXCEPT !.timers = @ \ {Req(r, url)}]

\* ------------------------------------------------------------------------
\* Check 1 (part_001:108-119): synchronous, no request
\* ------------------------------------------------------------------------
\* variant: the scheme compared without its colon
checkFileProtocol_NoColon(w, r) ==
  IF protocol = "file"
  THEN LET w1 == addMessage(w, r, "warn", "Page loaded via file:// (local file).", "")
           w2 == addActionButton(w1, r, "Open Live Server docs",
                                 "VS Code Live Server extension (easy)")
       IN addActionButton(w2, r, "Copy: start simple server (Python)", "")
  ELSE addMessage(w, r, "info", "Page opened over " \o protocol, "")

checkFileProtocol(w, r) ==
  IF protocol = "file:"
  THEN LET w1 == addMessage(w, r, "warn", "Page loaded via file:// (local file).", "")
           w2 == addActionButton(w1, r, "Open Live Server docs",
                                 "VS Code Live Server extension (easy)")
       IN addActionButton(w2, r, "Copy: start simple server (Python)", "")
  ELSE addMessage(w, r, "info", "Page opened over " \o protocol, "")

\* ------------------------------------------------------------------------
\* Heuristic summaries (part_001:202-211) and closing buttons (221-230)
\* ------------------------------------------------------------------------
IsDown(res) == ~res.ok

IsUp(res) == res.ok

\* variant: some port down instead of every port down
FileOriginFinding_AnyDown(w, r) ==
  IF protocol = "file:" /\ Some(w.localResults[r], IsDown)
  THEN addMessage(w, r, "warn", "Likely cause: file:// + no dev server", "")
  ELSE w

\* part_001:203-205
FileOriginFinding(w, r) ==
  IF protocol = "file:" /\ Every(w.localResults[r], IsDown)
  THEN addMessage(w, r, "warn", "Likely cause: file:// + no dev server", "")
  ELSE w

\* variant: every port up instead of some port up
ProxyFinding_AllUp(w, r) ==
  IF ~w.external[r].ok /\ Every(w.localResults[r], IsUp)
  THEN addMessage(w, r, "warn", "Pattern: local server OK but external fetch fails", "")
  ELSE w

\* variant: the local results are not looked at
ProxyFinding_NoLocalTest(w, r) ==
  IF ~w.external[r].ok
  THEN addMessage(w, r, "warn", "Pattern: local server OK but external fetch fails", "")
  ELSE w

\* part_001:206-208
ProxyFinding(w, r) ==
  IF ~w.external[r].ok /\ Some(w.localResults[r], IsUp)
  THEN addMessage(w, r, "warn", "Pattern: local server OK but external fetch fails", "")
  ELSE w

\* variant: the three summaries chained with else-if
OfflineFinding_ElseIf(w, r) ==
  IF /\ ~w.net[r].online
     /\ ~(protocol = "file:" /\ Every(w.localResults[r], IsDown))
     /\ ~(~w.external[r].ok /\ Some(w.localResults[r], IsUp))
  THEN addMessage(w, r, "error", "Network offline - reconnect required", "")
  ELSE w

\* part_001:209-211
OfflineFinding(w, r) ==
  IF ~w.net[r].online
  THEN addMessage(w, r, "error", "Network offline - reconnect required", "")
  ELSE w

\* part_001:221-230
ClosingButtons(w, r) ==
  LET w1 == addActionButton(w, r, "Copy checklist for ERR_CONNECTION_RESET",
                            "Copies a quick troubleshooting checklist")
  IN addActionButton(w1, r, "Run checks again", "Re-run diagnostics after changes")

\* runAllChecks from the return of checkNetworkAdapter to its end
Summarize(w, r) ==
  LET w1 == FileOriginFinding(w, r)
      w2 == ProxyFinding(w1, r)
      w3 == OfflineFinding(w2, r)
      w4 == ClosingButtons(w3, r)
  IN [w4 EXCEPT !.pc[r] = "done"]

\* ------------------------------------------------------------------------
\* Check 4 (part_001:171-191)
\* ------------------------------------------------------------------------
\* variant: the offline branch does not return
checkNetworkAdapter_NoReturn(w, r) ==
  LET w0 == IF ~onLine
            THEN addActionButton(addMessage(w, r, "error", "Network appears offline", ""),
                                 r, "Network troubleshooting", "")
            ELSE w
      w1 == addMessage(w0, r, "info", "Network adapter: online", "")
      w2 == fetchWithTimeout(w1, r, HEAD_URL)
  IN [w2 EXCEPT !.pc[r] = "head"]

\* checkNetworkAdapter up to its await, or to its return when offline
checkNetworkAdapter(w, r) ==
  IF ~onLine
  THEN LET w1 == addMessage(w, r, "error", "Network appears offline", "")
           w2 == addActionButton(w1, r, "Network troubleshooting", "")
       IN Summarize([w2 EXCEPT !.net[r] = [online |-> FALSE]], r)
  ELSE LET w1 == addMessage(w, r, "info", "Network adapter: online", "")
           w2 == fetchWithTimeout(w1, r, HEAD_URL)
       IN [w2 EXCEPT !.pc[r] = "head"]

\* the try branch after the await (part_001:184-185)
AdapterProbeOk(w, r) ==
  Summarize([w EXCEPT !.net[r] = [online |-> TRUE, check |-> "ok"]], r)

\* variant: a failed probe reported as offline
AdapterProbeFailed_Offline(w, r, errMessage) ==
  LET w1 == addMessage(w, r, "warn", "Connectivity test failed", "")
  IN Summarize([w1 EXCEPT !.net[r] = [online |-> FALSE, check |-> "failed"]], r)

\* the catch branch (part_001:186-190); err.message is logged only
AdapterProbeFailed(w, r, errMessage) ==
  LET w1 == addMessage(w, r, "warn", "Connectivity test failed", "")
  IN Summarize([w1 EXCEPT !.net[r] = [online |-> TRUE, check |-> "failed"]], r)

\* ------------------------------------------------------------------------
\* Check 3 (part_001:151-168)
\* ------------------------------------------------------------------------
checkExternalConnectivity(w, r) ==
  LET w1 == addMessage(w, r, "info", "Checking external connectivity...", "")
      w2 == fetchWithTimeout(w1, r, EXTERNAL_IP_URL)
  IN [w2 EXCEPT !.pc[r] = "external"]

\* res.json() fulfilled with json; ip is json.ip ("undefined" when absent)
ExternalOk(w, r, ip) ==
  LET w1 == addMessage(w, r, "info", "External connectivity OK", "Public IP: " \o ip)
  IN checkNetworkAdapter([w1 EXCEPT !.external[r] = [ok |-> TRUE, ip |-> ip]], r)

\* variant: no catch, the rejection leaves runAllChecks
ExternalFailed_Uncaught(w, r, errMessage) == [w EXCEPT !.pc[r] = "aborted"]

\* the catch branch, entered from the fetch or from res.json()
ExternalFailed(w, r, errMessage) ==
  LET w1 == addMessage(w, r, "warn", "Unable to fetch external IP", "")
      w2 == addActionButton(w1, r, "Proxy/VPN help", "")
      w3 == addActionButton(w2, r, "macOS proxy check", "")
      w4 == addActionButton(w3, r, "Windows proxy check", "")
  IN checkNetworkAdapter(
       [w4 EXCEPT !.external[r] = [ok |-> FALSE, error |-> errMessage]], r)

\* ------------------------------------------------------------------------
\* Check 2 (part_001:122-148)
\* ------------------------------------------------------------------------
\* variant: only the first result is looked at
LocalSummary_FirstOnly(w, r) ==
  LET up == Filter(w.localResults[r], IsUp)
      portOf(i) == up[i].port
      upPorts == [i \in 1..Len(up) |-> portOf(i)]
  IN IF w.localResults[r][1].ok
     THEN addMessage(w, r, "info", "Local dev server detected",
                     "Responding port(s): " \o Join(upPorts)
                       \o " - try opening http://localhost:" \o ToString(up[1].port))
     ELSE LET w1 == addMessage(w, r, "warn", "No local dev server detected",
                               "No responses on " \o Join(LOCAL_PORTS))
          IN addActionButton(w1, r, "Copy: npm start", "")

\* variant: the file-origin summary is rendered as soon as the ports are known
LocalSummary_EarlyFinding(w, r) ==
  LET up == Filter(w.localResults[r], IsUp)
      portOf(i) == up[i].port
      upPorts == [i \in 1..Len(up) |-> portOf(i)]
  IN IF Len(up) > 0
     THEN addMessage(w, r, "info", "Local dev server detected",
                     "Responding port(s): " \o Join(upPorts)
                       \o " - try opening http://localhost:" \o ToString(up[1].port))
     ELSE LET w1 == addMessage(w, r, "warn", "No local dev server detected",
                               "No responses on " \o Join(LOCAL_PORTS))
              w2 == addActionButton(w1, r, "Copy: npm start", "")
          IN FileOriginFinding(w2, r)

\* after the loop: the run-level message, then return results
LocalSummary(w, r) ==
  LET up == Filter(w.localResults[r], IsUp)
      portOf(i) == up[i].port
      upPorts == [i \in 1..Len(up) |-> portOf(i)]
  IN IF Len(up) > 0
     THEN addMessage(w, r, "info", "Local dev server detected",
                     "Responding port(s): " \o Join(upPorts)
                       \o " - try opening http://localhost:" \o ToString(up[1].port))
     ELSE LET w1 == addMessage(w, r, "warn", "No local dev server detected",
                               "No responses on " \o Join(LOCAL_PORTS))
          IN addActionButton(w1, r, "Copy: npm start", "")

\* the head of the for loop: probe the next port, or leave the loop and go on
\* with runAllChecks (part_001:199)
LocalLoop(w, r) ==
  IF w.idx[r] <= Len(LOCAL_PORTS)
  THEN LET w1 == fetchWithTimeout(w, r, LocalUrl(LOCAL_PORTS[w.idx[r]]))
       IN [w1 EXCEPT !.pc[r] = "local"]
  ELSE checkExternalConnectivity(LocalSummary(w, r), r)

\* variant: all ports are fetched at once
checkLocalServers_FireAll(w, r) ==
  LET w1 == addMessage(w, r, "info",
                       "Checking local dev servers (ports: " \o Join(LOCAL_PORTS) \o ")", "")
      w2 == fetchWithTimeout(w1, r, LocalUrl(LOCAL_PORTS[1]))
      w3 == fetchWithTimeout(w2, r, LocalUrl(LOCAL_PORTS[2]))
      w4 == fetchWithTimeout(w3, r, LocalUrl(LOCAL_PORTS[3]))
  IN [w4 EXCEPT !.localResults[r] = <<>>, !.idx[r] = 1, !.pc[r] = "local"]

checkLocalServers(w, r) ==
  LET w1 == addMessage(w, r, "info",
                       "Checking local dev servers (ports: " \o Join(LOCAL_PORTS) \o ")", "")
  IN LocalLoop([w1 EXCEPT !.localResults[r] = <<>>, !.idx[r] = 1], r)

\* the try branch after the await: results.push({ port, ok: true })
LocalProbeOk(w, r) ==
  LET port == LOCAL_PORTS[w.idx[r]]
  IN LocalLoop([w EXCEPT !.localResults[r] = Append(@, [port |-> port, ok |-> TRUE]),
                         !.idx[r] = @ + 1], r)

\* variant: the catch branch leaves the loop
LocalProbeFailed_Break(w, r, errMessage) ==
  LET port == LOCAL_PORTS[w.idx[r]]
  IN LocalLoop([w EXCEPT !.localResults[r] = Append(@, [port |-> port, ok |-> FALSE, info |-> errMessage]),
                         !.idx[r] = Len(LOCAL_PORTS) + 1], r)

\* variant: a failed port is fetched a second time before it is given up
LocalProbeFailed_RetryOnce(w, r, errMessage) ==
  LET port == LOCAL_PORTS[w.idx[r]]
      tries == Cardinality({i \in 1..Len(w.issued[r]) : w.issued[r][i] = LocalUrl(port)})
  IN IF tries < 2
     THEN LocalLoop(w, r)
     ELSE LocalLoop([w EXCEPT !.localResults[r] = Append(@, [port |-> port, ok |-> FALSE, info |-> errMessage]),
                              !.idx[r] = @ + 1], r)

\* the catch branch: results.push({ port, ok: false, info: err.message })
LocalProbeFailed(w, r, errMessage) ==
  LET port == LOCAL_PORTS[w.idx[r]]
  IN LocalLoop([w EXCEPT !.localResults[r] = Append(@, [port |-> port, ok |-> FALSE, info |-> errMessage]),
                         !.idx[r] = @ + 1], r)

\* ------------------------------------------------------------------------
\* Orchestrator (part_001:194-200): runAllChecks up to its first await
\* ------------------------------------------------------------------------
\* variant: the rerun button is added when the run starts
runAllChecks_RerunButtonFirst(w, r) ==
  LET w1 == ensurePanel(w)
      w2 == addMessage(w1, r, "info", "Starting diagnostics", "")
      w3 == addActionButton(w2, r, "Run checks again", "Re-run diagnostics after changes")
      w4 == checkFileProtocol(w3, r)
  IN IF w1.thrown
     THEN [w1 EXCEPT !.thrown = FALSE, !.pc[r] = "rejected"]
     ELSE checkLocalServers(w4, r)

\* an exception inside the async function rejects the promise it returns;
\* nothing is thrown to the caller
runAllChecks(w, r) ==
  LET w1 == ensurePanel(w)
      w2 == addMessage(w1, r, "info", "Starting diagnostics", "")
      w3 == checkFileProtocol(w2, r)
  IN IF w1.thrown
     THEN [w1 EXCEPT !.thrown = FALSE, !.pc[r] = "rejected"]
     ELSE checkLocalServers(w3, r)

\* ------------------------------------------------------------------------
\* The awaits
\* ------------------------------------------------------------------------
Awaiting == {"local", "external", "json", "head"}

\* the URL whose fetchWithTimeout invocation r is awaiting
AwaitedUrl(r) ==
  CASE pc[r] = "local" -> LocalUrl(LOCAL_PORTS[idx[r]])
    [] pc[r] = "external" -> EXTERNAL_IP_URL
    [] pc[r] = "head" -> HEAD_URL

\* how the endpoint behind that URL behaves
AwaitedKind(r) ==
  CASE pc[r] = "local" -> portEnv[LOCAL_PORTS[idx[r]]]
    [] pc[r] = "external" ->
         IF extEnv \in {"fail", "slow"} THEN extEnv ELSE "ok"
    [] pc[r] = "head" -> headEnv

\* error messages of the rejections
TIMEOUT_MESSAGE == "timeout"

NETWORK_MESSAGE == "Failed to fetch"

PARSE_MESSAGE == "Unexpected token < in JSON at position 0"

\* the code after the await when the awaited promise fulfilled
ResumeFulfilled(w, r) ==
  CASE pc[r] = "local" -> LocalProbeOk(w, r)
    [] pc[r] = "external" -> [w EXCEPT !.pc[r] = "json"]
    [] pc[r] = "head" -> AdapterProbeOk(w, r)

\* the catch block when the awaited promise rejected
ResumeRejected(w, r, errMessage) ==
  CASE pc[r] = "local" -> LocalProbeFailed(w, r, errMessage)
    [] pc[r] = "external" -> ExternalFailed(w, r, errMessage)
    [] pc[r] = "head" -> AdapterProbeFailed(w, r, errMessage)

\* what the timer callback does to the request (part_001:37): nothing, it
\* only rejects the promise
TimeoutAbort(w, r, url) == w

\* ------------------------------------------------------------------------
\* Initial state: the script has run, the document is still loading
\* ------------------------------------------------------------------------
Ports == {LOCAL_PORTS[i] : i \in 1..Len(LOCAL_PORTS)}

\* nothing has run yet
InitPage ==
  /\ panel = 0
  /\ nruns = 0
  /\ pc = [r \in Runs |-> "idle"]
  /\ idx = [r \in Runs |-> 0]
  /\ localResults = [r \in Runs |-> <<>>]
  /\ external = [r \in Runs |-> None]
  /\ net = [r \in Runs |-> None]
  /\ messages = [r \in Runs |-> <<>>]
  /\ actions = [r \in Runs |-> <<>>]
  /\ issued = [r \in Runs |-> <<>>]
  /\ inflight = {}
  /\ timers = {}
  /\ overlapped = FALSE
  /\ extra = <<>>
  /\ errorLog = <<>>

\* the script is a classic script of a document with a body: it runs while
\* the document is being parsed
ParsingDocument ==
  /\ readyState = "loading"
  /\ hasBody = TRUE
  /\ loaded = FALSE

Updates == 1..MaxUpdates

\* app.js has not run
NoWidget ==
  /\ BACKEND_BASE = "/"
  /\ healthEnv = <<"text", "text", "text">>
  /\ appInit = "pending"
  /\ nupdates = 0
  /\ hpc = [u \in Updates |-> "idle"]
  /\ hidx = [u \in Updates |-> 0]
  /\ lastErr = [u \in Updates |-> None]
  /\ hres = [u \in Updates |-> "none"]
  /\ hresult = [u \in Updates |-> None]
  /\ hissued = [u \in Updates |-> <<>>]
  /\ hinflight = {}
  /\ htimers = {}
  /\ statusText = ""
  /\ statusClass = {}

\* every environment; the reachability probe is of no account when offline
Init ==
  /\ protocol \in Protocols
  /\ onLine \in BOOLEAN
  /\ portEnv \in [Ports -> ProbeKinds]
  /\ extEnv \in ExternalKinds
  /\ headEnv \in (IF onLine THEN ProbeKinds ELSE {"fail"})
  /\ ParsingDocument
  /\ InitPage
  /\ NoWidget

\* the environments of SpecRerun: ports that answer or time out, an external
\* endpoint that answers or is unreachable, a reachable well-known host
InitRerun ==
  /\ protocol \in {"file:", "http:"}
  /\ onLine \in BOOLEAN
  /\ portEnv \in [Ports -> {"ok", "slow"}]
  /\ extEnv \in {"ip", "fail"}
  /\ headEnv = (IF onLine THEN "ok" ELSE "fail")
  /\ ParsingDocument
  /\ InitPage
  /\ NoWidget

\* ------------------------------------------------------------------------
\* Tasks of the event loop
\* ------------------------------------------------------------------------
\* the catch of the listener (part_001:235)
StartupError(w) ==
  LET w1 == logError([w EXCEPT !.thrown = FALSE], "Diagnostics crashed:")
  IN addMessage(w1, 1, "error", "Diagnostics error", "")

\* the listener: try { runAllChecks(); } catch (err) { ... }
StartupListener(w) ==
  LET w1 == runAllChecks(w, 1)
  IN IF w1.thrown THEN StartupError(w1) ELSE w1

\* part_001:234-236: the event is dispatched once, to the listeners that are
\* registered at that moment
DOMContentLoaded ==
  /\ ~loaded
  /\ loaded' = TRUE
  /\ nruns' = 1
  /\ Commit(StartupListener(World))
  /\ UNCHANGED <<envVars, overlapped, healthVars>>

\* the click handler of a "Run checks again" button (part_001:230); every
\* completed invocation has left one in the panel
RerunButtonPresent ==
  \E r \in Runs : \E i \in 1..Len(actions[r]) :
     actions[r][i].label = "Run checks again"

ClearMessages(w) == [w EXCEPT !.messages = [r \in Runs |-> <<>>], !.extra = <<>>]

RunChecksAgain(limit) ==
  /\ RerunButtonPresent
  /\ nruns < limit
  /\ nruns' = nruns + 1
  /\ overlapped' = (overlapped \/ \E r \in Runs : pc[r] \in Awaiting)
  /\ Commit(runAllChecks(ClearMessages(ensurePanel(World)), nruns + 1))
  /\ UNCHANGED <<envVars, loaded, healthVars>>

\* the fetch promise fulfils while the timer is armed (part_001:38, then)
FetchFulfilled(r) ==
  /\ pc[r] \in {"local", "external", "head"}
  /\ Req(r, AwaitedUrl(r)) \in inflight
  /\ Req(r, AwaitedUrl(r)) \in timers
  /\ AwaitedKind(r) = "ok"
  /\ LET url == AwaitedUrl(r)
         w1 == [World EXCEPT !.inflight = @ \ {Req(r, url)}]
         w2 == clearTimeout(w1, r, url)
     IN Commit(ResumeFulfilled(w2, r))
  /\ UNCHANGED <<envVars, loaded, nruns, overlapped, healthVars>>

\* the fetch promise rejects while the timer is armed (part_001:38, catch)
FetchRejected(r) ==
  /\ pc[r] \in {"local", "external", "head"}
  /\ Req(r, AwaitedUrl(r)) \in inflight
  /\ Req(r, AwaitedUrl(r)) \in timers
  /\ AwaitedKind(r) = "fail"
  /\ LET url == AwaitedUrl(r)
         w1 == [World EXCEPT !.inflight = @ \ {Req(r, url)}]
         w2 == clearTimeout(w1, r, url)
     IN Commit(ResumeRejected(w2, r, NETWORK_MESSAGE))
  /\ UNCHANGED <<envVars, loaded, nruns, overlapped, healthVars>>

\* the timer fires first (part_001:37): reject(new Error('timeout'))
TimerFired(r) ==
  /\ pc[r] \in {"local", "external", "head"}
  /\ Req(r, AwaitedUrl(r)) \in timers
  /\ AwaitedKind(r) = "slow"
  /\ LET url == AwaitedUrl(r)
         w1 == [World EXCEPT !.timers = @ \ {Req(r, url)}]
         w2 == TimeoutAbort(w1, r, url)
     IN Commit(ResumeRejected(w2, r, TIMEOUT_MESSAGE))
  /\ UNCHANGED <<envVars, loaded, nruns, overlapped, healthVars>>

\* requests whose promise was already rejected by the timer
Abandoned == inflight \ timers

\* position of a URL in the URLs an invocation has fetched
IssueIndex(q) == CHOOSE i \in 1..Len(issued[q.run]) : issued[q.run][i] = q.url

\* the network settles abandoned requests in a fixed order (by invocation,
\* then by issue); their settlement touches no program state, so the order
\* among them is immaterial
Oldest(q) ==
  \A o \in Abandoned :
     \/ q.run < o.run
     \/ q.run = o.run /\ IssueIndex(q) <= IssueIndex(o)

\* variant: the late response is reported as one more result
LateResolve_Report(w, q) ==
  [w EXCEPT !.localResults[q.run] = Append(@, [url |-> q.url, ok |-> TRUE])]

\* the then/catch callback of a request whose promise the timer has
\* rejected: clearTimeout of a fired timer and resolve/reject of a settled
\* promise have no effect (part_001:38)
LateResolve(w, q) == clearTimeout(w, q.run, q.url)

\* an abandoned request settles
LateSettle(q) ==
  /\ q \in Abandoned
  /\ Oldest(q)
  /\ Commit(LateResolve([World EXCEPT !.inflight = @ \ {q}], q))
  /\ UNCHANGED <<envVars, loaded, nruns, overlapped, healthVars>>

\* res.json() settles (part_001:156)
BodyArrived(r) ==
  /\ pc[r] = "json"
  /\ extEnv \in {"ip", "noip", "notjson"}
  /\ Commit(CASE extEnv = "ip" -> ExternalOk(World, r, PUBLIC_IP)
              [] extEnv = "noip" -> ExternalOk(World, r, "undefined")
              [] extEnv = "notjson" -> ExternalFailed(World, r, PARSE_MESSAGE))
  /\ UNCHANGED <<envVars, loaded, nruns, overlapped, healthVars>>

\* the tasks the network and the timers queue
NetworkTask ==
  \/ \E r \in Runs : FetchFulfilled(r)
  \/ \E r \in Runs : FetchRejected(r)
  \/ \E r \in Runs : TimerFired(r)
  \/ \E r \in Runs : BodyArrived(r)
  \/ \E q \in inflight : LateSettle(q)

Next ==
  \/ DOMContentLoaded
  \/ RunChecksAgain(MaxRuns)
  \/ NetworkTask

Spec == Init /\ [][Next]_vars

\* the environments of SpecFair: the three ports behave alike, the external
\* endpoint in every way
InitFair ==
  /\ protocol = "http:"
  /\ onLine \in BOOLEAN
  /\ portEnv \in {[p \in Ports |-> k] : k \in ProbeKinds}
  /\ extEnv \in ExternalKinds
  /\ headEnv \in (IF onLine THEN {"ok", "slow"} ELSE {"fail"})
  /\ ParsingDocument
  /\ InitPage
  /\ NoWidget

\* the event loop runs a task that stays queued: the document finishes
\* loading, the network settles every request it can settle, a timer that
\* is armed fires, a body that can finish does finish
\* some task of the network or of a timer is queued: the guards of the
\* disjuncts of NetworkTask
NetworkTaskQueued ==
  \/ \E r \in Runs :
        /\ pc[r] \in {"local", "external", "head"}
        /\ Req(r, AwaitedUrl(r)) \in timers
        /\ \/ AwaitedKind(r) = "slow"
           \/ AwaitedKind(r) \in {"ok", "fail"} /\ Req(r, AwaitedUrl(r)) \in inflight
  \/ \E r \in Runs : pc[r] = "json" /\ extEnv \in {"ip", "noip", "notjson"}
  \/ Abandoned # {}

\* weak fairness of DOMContentLoaded and of NetworkTask; for NetworkTask it
\* is WF_vars(NetworkTask) with ENABLED written out as NetworkTaskQueued
Fairness ==
  /\ WF_vars(DOMContentLoaded)
  /\ ([]<>~NetworkTaskQueued \/ []<><<NetworkTask>>_vars)

SpecFair == InitFair /\ [][Next]_vars /\ Fairness

NextRerun ==
  \/ DOMContentLoaded
  \/ RunChecksAgain(MaxRerunRuns)
  \/ NetworkTask

SpecRerun == InitRerun /\ [][NextRerun]_vars

\* ------------------------------------------------------------------------
\* Page load and button callbacks
\* ------------------------------------------------------------------------
ReadyStates == {"loading", "interactive", "complete"}

\* the script may be executed at any stage of the load (classic, deferred,
\* async or injected script), in a document with or without a body; a
\* deferred script runs at "interactive" before DOMContentLoaded, an async
\* or injected one may run after it
InitLoad ==
  /\ protocol \in {"file:", "http:"}
  /\ onLine = TRUE
  /\ portEnv \in {[p \in Ports |-> k] : k \in {"ok", "fail"}}
  /\ extEnv \in {"ip", "fail"}
  /\ headEnv = "slow"
  /\ readyState \in ReadyStates
  /\ hasBody \in BOOLEAN
  /\ loaded \in (CASE readyState = "loading" -> {FALSE}
                   [] readyState = "interactive" -> BOOLEAN
                   [] readyState = "complete" -> {TRUE})
  /\ InitPage
  /\ NoWidget

\* addMessage called by a button callback: the row is of no invocation
addCallbackMessage(w, level, text, more) ==
  LET w1 == ensurePanel(w)
  IN IF w1.thrown THEN w1
     ELSE [w1 EXCEPT !.extra =
             Append(@, [level |-> level, text |-> text, more |-> more])]

\* the buttons whose callback copies a text and then adds a row
\* (part_001:114, 144, 221-228)
CopyButtons ==
  {"Copy: start simple server (Python)", "Copy: npm start",
   "Copy checklist for ERR_CONNECTION_RESET"}

\* the buttons whose callback adds a row (part_001:163-164)
HelpButtons == {"macOS proxy check", "Windows proxy check"}

\* the row a callback adds
CallbackRow(label) ==
  CASE label = "Copy: start simple server (Python)" ->
         "Command copied: python3 -m http.server 5500"
    [] label = "Copy: npm start" -> "Copied: npm start"
    [] label = "Copy checklist for ERR_CONNECTION_RESET" ->
         "Checklist copied to clipboard"
    [] label \in HelpButtons -> label

\* a click on the i-th button that invocation r has added; the text is
\* copied and the row is added. A copy that fails and the buttons that open
\* a window leave the document as it is.
ButtonCallback(r, i) ==
  /\ i \in 1..Len(actions[r])
  /\ actions[r][i].label \in CopyButtons \cup HelpButtons
  /\ Len(extra) < MaxCallbackRows
  /\ Commit(addCallbackMessage(World, "info", CallbackRow(actions[r][i].label), ""))
  /\ UNCHANGED <<envVars, loaded, nruns, overlapped, healthVars>>

NextLoad ==
  \/ DOMContentLoaded
  \/ RunChecksAgain(MaxLoadRuns)
  \/ NetworkTask
  \/ \E r \in Runs : \E i \in 1..Len(actions[r]) : ButtonCallback(r, i)

SpecLoad == InitLoad /\ [][NextLoad]_vars

\* ------------------------------------------------------------------------
\* The heuristic step for a port list of any length
\* ------------------------------------------------------------------------
\* what checkLocalServers returns for a list of n ports, each up or down
PortResults(n) ==
  {[i \in 1..n |-> IF i \in up
                   THEN [port |-> 5500 + i, ok |-> TRUE]
                   ELSE [port |-> 5500 + i, ok |-> FALSE, info |-> NETWORK_MESSAGE]] :
     up \in SUBSET (1..n)}

\* invocation 1 has the results of its three awaits (part_001:198-200) for
\* a LOCAL_PORTS of 0..MaxPorts entries and is about to run the heuristics
InitSummary ==
  /\ protocol \in Protocols
  /\ onLine \in BOOLEAN
  /\ portEnv = [p \in Ports |-> "fail"]
  /\ extEnv \in {"ip", "fail"}
  /\ headEnv = (IF onLine THEN "ok" ELSE "fail")
  /\ readyState = "loading"
  /\ hasBody = TRUE
  /\ loaded = TRUE
  /\ panel = 1
  /\ nruns = 1
  /\ pc = [r \in Runs |-> IF r = 1 THEN "summary" ELSE "idle"]
  /\ idx = [r \in Runs |-> 0]
  /\ \E n \in 0..MaxPorts : \E res \in PortResults(n) :
        localResults = [r \in Runs |-> IF r = 1 THEN res ELSE <<>>]
  /\ external = [r \in Runs |-> IF r # 1 THEN None
                                 ELSE IF extEnv = "ip" THEN [ok |-> TRUE, ip |-> PUBLIC_IP]
                                 ELSE [ok |-> FALSE, error |-> NETWORK_MESSAGE]]
  /\ net = [r \in Runs |-> IF r # 1 THEN None
                            ELSE IF onLine THEN [online |-> TRUE, check |-> "ok"]
                            ELSE [online |-> FALSE]]
  /\ messages = [r \in Runs |-> <<>>]
  /\ actions = [r \in Runs |-> <<>>]
  /\ issued = [r \in Runs |-> <<>>]
  /\ inflight = {}
  /\ timers = {}
  /\ overlapped = FALSE
  /\ extra = <<>>
  /\ errorLog = <<>>
  /\ NoWidget

\* part_001:202-230
HeuristicStep ==
  /\ pc[1] = "summary"
  /\ Commit(Summarize(World, 1))
  /\ UNCHANGED <<envVars, loaded, nruns, overlapped, healthVars>>

NextSummary == HeuristicStep

SpecSummary == InitSummary /\ [][NextSummary]_vars

\* ------------------------------------------------------------------------
\* The health widget (part_000)
\* ------------------------------------------------------------------------
\* part_000:66-70
urlsToTry ==
  <<BACKEND_BASE \o "api/health", BACKEND_BASE \o "health", BACKEND_BASE>>

\* an endpoint answers 200 with a JSON body, 200 with a text body, 200 with
\* content-type JSON and a body that is not JSON, 404, not at all (network
\* error), or not within the time limit
HealthKinds == {"json", "text", "badjson", "http404", "fail", "slow"}

\* the bodies: a parsed JSON object, and a string
HEALTH_JSON == [message |-> "Backend healthy"]
HEALTH_TEXT == [string |-> "GameFlix Auth API Running..."]
ABORT_MESSAGE == "The user aborted a request."

\* new Error(message)
Error(message) == [message |-> message]

\* the mutable state of the widget as one record
Widget ==
  [hpc |-> hpc, hidx |-> hidx, lastErr |-> lastErr, hres |-> hres,
   hresult |-> hresult,
   hissued |-> hissued, hinflight |-> hinflight, htimers |-> htimers,
   statusText |-> statusText, statusClass |-> statusClass]

CommitWidget(h) ==
  /\ hpc' = h.hpc
  /\ hidx' = h.hidx
  /\ lastErr' = h.lastErr
  /\ hres' = h.hres
  /\ hresult' = h.hresult
  /\ hissued' = h.hissued
  /\ hinflight' = h.hinflight
  /\ htimers' = h.htimers
  /\ statusText' = h.statusText
  /\ statusClass' = h.statusClass

\* part_000:17-19
setText(h, text) == [h EXCEPT !.statusText = text]

\* part_000:44-49
showStatus(h, ok, message) ==
  [h EXCEPT !.statusClass = (@ \ {"ok", "error"}) \cup {IF ok THEN "ok" ELSE "error"},
            !.statusText = (IF ok THEN "OK - " ELSE "ERROR - ") \o message]

\* part_000:52-56: arm the abort timer, issue the request
healthFetchWithTimeout(h, u, url) ==
  [h EXCEPT !.htimers = @ \cup {Req(u, url)},
            !.hinflight = @ \cup {Req(u, url)},
            !.hissued[u] = Append(@, url)]

\* update() after fetchServerHealth has returned (part_000:103-104)
UpdateOk(h, u, url, data) ==
  LET summary == IF "string" \in DOMAIN data THEN data.string ELSE data.message
      h1 == [h EXCEPT !.hresult[u] = [url |-> url, ok |-> TRUE, data |-> data],
                      !.hpc[u] = "returned"]
  IN showStatus(h1, TRUE, summary \o " (from " \o url \o ")")

\* update() after fetchServerHealth has thrown (part_000:105-107)
UpdateFailed(h, u, err) ==
  showStatus([h EXCEPT !.hresult[u] = [ok |-> FALSE, error |-> err],
                       !.hpc[u] = "threw"], FALSE, err.message)

\* the head of the for loop, and the throw after it (part_000:72-74, 92)
HealthLoop(h, u) ==
  IF h.hidx[u] > Len(urlsToTry)
  THEN UpdateFailed(h, u, IF h.lastErr[u] = None
                          THEN Error("No health endpoints responded")
                          ELSE h.lastErr[u])
  ELSE [healthFetchWithTimeout(h, u, urlsToTry[h.hidx[u]]) EXCEPT !.hpc[u] = "fetch"]

\* variant: the first error is kept
HealthSkip_KeepFirstError(h, u, err) ==
  HealthLoop([h EXCEPT !.lastErr[u] = (IF @ = None THEN err ELSE @),
                       !.hidx[u] = @ + 1], u)

\* variant: the loop ends at the first endpoint that cannot be used
HealthSkip_GiveUp(h, u, err) ==
  HealthLoop([h EXCEPT !.lastErr[u] = err, !.hidx[u] = Len(urlsToTry) + 1], u)

\* lastErr = ...; then the next endpoint (part_000:76-77, 88-90)
HealthSkip(h, u, err) ==
  HealthLoop([h EXCEPT !.lastErr[u] = err, !.hidx[u] = @ + 1], u)

\* part_000:65-74
fetchServerHealth(h, u) ==
  HealthLoop([h EXCEPT !.lastErr[u] = None, !.hidx[u] = 1], u)

\* part_000:99-102
update(h, u) == fetchServerHealth(setText(h, "Checking server..."), u)

\* the widget runs in a page without the diagnostics script
InitHealth ==
  /\ protocol = "http:"
  /\ onLine = TRUE
  /\ portEnv = [p \in Ports |-> "fail"]
  /\ extEnv = "fail"
  /\ headEnv = "fail"
  /\ readyState \in ReadyStates
  /\ hasBody \in BOOLEAN
  /\ loaded = (readyState # "loading")
  /\ InitPage
  /\ BACKEND_BASE \in {"/", "http://localhost:5001/"}
  /\ healthEnv \in [1..3 -> HealthKinds]
  /\ appInit = "pending"
  /\ nupdates = 0
  /\ hpc = [u \in Updates |-> "idle"]
  /\ hidx = [u \in Updates |-> 0]
  /\ lastErr = [u \in Updates |-> None]
  /\ hres = [u \in Updates |-> "none"]
  /\ hresult = [u \in Updates |-> None]
  /\ hissued = [u \in Updates |-> <<>>]
  /\ hinflight = {}
  /\ htimers = {}
  /\ statusText = ""
  /\ statusClass = {}

diagVars ==
  <<protocol, onLine, portEnv, extEnv, headEnv, readyState, hasBody, panel,
    nruns, pc, idx, localResults, external, net, messages, actions, issued,
    inflight, timers, overlapped, extra, errorLog>>

\* part_000:124-128 and init (96-116): at once when the document is past
\* "loading", else on DOMContentLoaded. ensureUI (22-42) throws without a
\* document body; the rejection of init() is swallowed by .catch(() => {})
AutoRun ==
  /\ appInit = "pending"
  /\ loaded' = TRUE
  /\ IF hasBody
     THEN /\ appInit' = "ready"
          /\ nupdates' = 1
          /\ CommitWidget(update(setText(Widget, "Loading..."), 1))
     ELSE /\ appInit' = "failed"
          /\ UNCHANGED <<nupdates, hpc, hidx, lastErr, hres, hresult, hissued,
                         hinflight, htimers, statusText, statusClass>>
  /\ UNCHANGED <<diagVars, BACKEND_BASE, healthEnv>>

\* the click listener of #refresh-btn (part_000:110-112)
Refresh ==
  /\ appInit = "ready"
  /\ nupdates < MaxUpdates
  /\ nupdates' = nupdates + 1
  /\ CommitWidget(update(Widget, nupdates + 1))
  /\ UNCHANGED <<diagVars, loaded, BACKEND_BASE, healthEnv, appInit>>

HealthAwaited(u) == Req(u, urlsToTry[hidx[u]])

HealthKind(u) == healthEnv[hidx[u]]

\* the response headers arrive: clearTimeout, then the status test
\* (part_000:56-58, 75-78)
HealthResponse(u) ==
  /\ hpc[u] = "fetch"
  /\ HealthKind(u) \in {"json", "text", "badjson", "http404"}
  /\ LET q == HealthAwaited(u)
         h1 == [Widget EXCEPT !.hinflight = @ \ {q}, !.htimers = @ \ {q}]
     IN CommitWidget(IF HealthKind(u) = "http404"
                     THEN HealthSkip(h1, u, Error("HTTP 404 Not Found from " \o q.url))
                     ELSE [h1 EXCEPT !.hpc[u] = "body", !.hres[u] = HealthKind(u)])
  /\ UNCHANGED <<diagVars, loaded, BACKEND_BASE, healthEnv, appInit, nupdates>>

\* res.json() or res.text() settles (part_000:80-90)
HealthBody(u) ==
  /\ hpc[u] = "body"
  /\ LET url == urlsToTry[hidx[u]]
         h == [Widget EXCEPT !.hres[u] = "none"]
     IN CommitWidget(CASE hres[u] = "json" -> UpdateOk(h, u, url, HEALTH_JSON)
                       [] hres[u] = "text" -> UpdateOk(h, u, url, HEALTH_TEXT)
                       [] hres[u] = "badjson" -> HealthSkip(h, u, Error(PARSE_MESSAGE)))
  /\ UNCHANGED <<diagVars, loaded, BACKEND_BASE, healthEnv, appInit, nupdates>>

\* fetch rejects: clearTimeout, rethrow, caught by the loop (part_000:59-62, 88-90)
HealthRejected(u) ==
  /\ hpc[u] = "fetch"
  /\ HealthKind(u) = "fail"
  /\ LET q == HealthAwaited(u)
         h1 == [Widget EXCEPT !.hinflight = @ \ {q}, !.htimers = @ \ {q}]
     IN CommitWidget(HealthSkip(h1, u, Error(NETWORK_MESSAGE)))
  /\ UNCHANGED <<diagVars, loaded, BACKEND_BASE, healthEnv, appInit, nupdates>>

\* the timer fires: controller.abort() cancels the request and fetch rejects
\* with an AbortError (part_000:54)
HealthTimeout(u) ==
  /\ hpc[u] = "fetch"
  /\ HealthKind(u) = "slow"
  /\ LET q == HealthAwaited(u)
         h1 == [Widget EXCEPT !.hinflight = @ \ {q}, !.htimers = @ \ {q}]
     IN CommitWidget(HealthSkip(h1, u, Error(ABORT_MESSAGE)))
  /\ UNCHANGED <<diagVars, loaded, BACKEND_BASE, healthEnv, appInit, nupdates>>

NextHealth ==
  \/ AutoRun
  \/ Refresh
  \/ \E u \in Updates : HealthResponse(u)
  \/ \E u \in Updates : HealthBody(u)
  \/ \E u \in Updates : HealthRejected(u)
  \/ \E u \in Updates : HealthTimeout(u)

SpecHealth == InitHealth /\ [][NextHealth]_vars

\* ------------------------------------------------------------------------
\* The health widget with a backend that changes between requests
\* ------------------------------------------------------------------------
\* the backend of this repository (/ answers with text, the other paths
\* with 404), a backend with JSON health routes, one with a broken JSON
\* route, no backend, a backend that does not answer
ServerStates ==
  { <<"http404", "http404", "text">>,
    <<"json", "json", "text">>,
    <<"badjson", "http404", "text">>,
    <<"fail", "fail", "fail">>,
    <<"slow", "slow", "slow">> }

InitRefresh ==
  /\ InitHealth
  /\ readyState = "complete"
  /\ hasBody = TRUE
  /\ BACKEND_BASE = "/"
  /\ healthEnv \in ServerStates

\* the backend is started, stopped or hangs; a request that is pending is
\* answered by the backend as it is when the answer is due
BackendChanges ==
  /\ \E e \in ServerStates \ {healthEnv} : healthEnv' = e
  /\ UNCHANGED <<diagVars, loaded, BACKEND_BASE, appInit, nupdates, hpc, hidx,
                 lastErr, hres, hresult, hissued, hinflight, htimers,
                 statusText, statusClass>>

NextRefresh ==
  \/ NextHealth
  \/ BackendChanges

SpecRefresh == InitRefresh /\ [][NextRefresh]_vars

\* ------------------------------------------------------------------------
\* Properties
\* ------------------------------------------------------------------------
Started(r) == pc[r] # "idle"

Done(r) == pc[r] = "done"

\* invocation r is the newest one: no rerun has cleared the rows it appended
Newest(r) == r = nruns

\* checkLocalServers of invocation r has returned
LocalReturned(r) == pc[r] \in {"external", "json", "head", "done"}

\* every invocation has reached its end
Settled == nruns >= 1 /\ \A r \in Runs : pc[r] \in {"idle", "done"}

HasMessage(r, level, text) ==
  \E i \in 1..Len(messages[r]) :
     messages[r][i].level = level /\ messages[r][i].text = text

HasButton(r, label) ==
  \E i \in 1..Len(actions[r]) : actions[r][i].label = label

Fetched(r, url) == \E i \in 1..Len(issued[r]) : issued[r][i] = url

FILE_FINDING == "Likely cause: file:// + no dev server"

PROXY_FINDING == "Pattern: local server OK but external fetch fails"

OFFLINE_FINDING == "Network offline - reconnect required"

Findings == {FILE_FINDING, PROXY_FINDING, OFFLINE_FINDING}

\* the external probe failed: timeout, network failure or parse failure
ExternalProbeFails == extEnv \in {"slow", "fail", "notjson"}

\* C1: after a rerun was started while an earlier invocation was suspended,
\* once every invocation has ended the message list holds rows of the newest
\* invocation only.
C1_StaleRunDiscarded ==
  (overlapped /\ Settled) => \A r \in Runs : r < nruns => messages[r] = <<>>

\* C2: when checkLocalServers has returned, its result list has one entry per
\* configured port, in order, whatever each port did, and every port was
\* probed.
C2_OneResultPerPort ==
  \A r \in Runs : LocalReturned(r) =>
     /\ Len(localResults[r]) = Len(LOCAL_PORTS)
     /\ \A i \in 1..Len(LOCAL_PORTS) :
          /\ localResults[r][i].port = LOCAL_PORTS[i]
          /\ localResults[r][i].ok = (portEnv[LOCAL_PORTS[i]] = "ok")
          /\ Fetched(r, LocalUrl(LOCAL_PORTS[i]))

\* a completed invocation whose first port failed, whose second port timed
\* out and whose third port answered
C2_Witness ==
  \E r \in Runs :
     /\ Done(r)
     /\ localResults[r][1] = [port |-> 5500, ok |-> FALSE, info |-> NETWORK_MESSAGE]
     /\ localResults[r][2] = [port |-> 3000, ok |-> FALSE, info |-> TIMEOUT_MESSAGE]
     /\ localResults[r][3] = [port |-> 8080, ok |-> TRUE]

\* C3: a completed run shows the file-origin finding exactly when the scheme
\* is file: and every local-port result is ok:false.
C3_FileOriginFindingIff ==
  \A r \in Runs : (Done(r) /\ Newest(r)) =>
     (HasMessage(r, "warn", FILE_FINDING)
        <=> (protocol = "file:" /\ \A i \in 1..Len(localResults[r]) : ~localResults[r][i].ok))

C3_Witness ==
  \E r \in Runs :
     /\ Done(r) /\ Newest(r)
     /\ protocol = "file:"
     /\ HasMessage(r, "warn", FILE_FINDING)

\* C4: a completed run whose external probe failed and with a responding
\* local port shows the proxy finding; a run in which no local port responded
\* does not show it.
C4_ProxyFinding ==
  \A r \in Runs : (Done(r) /\ Newest(r)) =>
     /\ (ExternalProbeFails /\ \E p \in Ports : portEnv[p] = "ok")
          => HasMessage(r, "warn", PROXY_FINDING)
     /\ (\A p \in Ports : portEnv[p] # "ok")
          => ~HasMessage(r, "warn", PROXY_FINDING)

\* scheme http:, port 5500 answers, the external probe times out, online
C4_Witness ==
  \E r \in Runs :
     /\ Done(r) /\ Newest(r)
     /\ protocol = "http:" /\ portEnv[5500] = "ok" /\ extEnv = "slow" /\ onLine
     /\ HasMessage(r, "warn", PROXY_FINDING)
     /\ ~HasMessage(r, "warn", FILE_FINDING)

\* C5: when navigator.onLine is false no request to the well-known host is
\* issued, and the adapter result is {online:false}.
C5_OfflineShortCircuit ==
  \A r \in Runs : ~onLine =>
     /\ ~Fetched(r, HEAD_URL)
     /\ pc[r] # "head"
     /\ Done(r) => net[r] = [online |-> FALSE]

C5_Witness ==
  \E r \in Runs : ~onLine /\ Done(r) /\ net[r] = [online |-> FALSE]

\* C6: when the adapter is offline the completed run shows the reconnect
\* finding; it is the last row of the run, no other finding of the run takes
\* its place, and it is the only finding rendered at level error.
C6_OfflineFindingPriority ==
  \A r \in Runs : (Done(r) /\ Newest(r) /\ ~onLine) =>
     /\ messages[r][Len(messages[r])] = [level |-> "error", text |-> OFFLINE_FINDING, more |-> ""]
     /\ \A i \in 1..Len(messages[r]) :
          messages[r][i].text \in (Findings \ {OFFLINE_FINDING})
             => messages[r][i].level = "warn"

\* offline, and the run also shows the proxy finding
C6_Witness ==
  \E r \in Runs :
     /\ Done(r) /\ Newest(r) /\ ~onLine
     /\ HasMessage(r, "warn", PROXY_FINDING)
     /\ HasMessage(r, "error", OFFLINE_FINDING)

\* what err.message is for an endpoint that does not answer in time
FailureMessage(kind) == IF kind = "slow" THEN TIMEOUT_MESSAGE ELSE NETWORK_MESSAGE

\* a suspended invocation waits on a promise that will settle: its timer is
\* armed, or the response body is being read
NotAborted(r) ==
  /\ pc[r] \in {"idle", "done"} \cup Awaiting
  /\ pc[r] \in {"local", "external", "head"} => Req(r, AwaitedUrl(r)) \in timers

\* failures of the local-port and external probes become failed results
\* that hold the error message
ProbeFailuresCaptured(r) ==
  /\ \A i \in 1..Len(localResults[r]) :
       portEnv[LOCAL_PORTS[i]] # "ok" =>
          localResults[r][i] = [port |-> LOCAL_PORTS[i], ok |-> FALSE,
                                info |-> FailureMessage(portEnv[LOCAL_PORTS[i]])]
  /\ (pc[r] \in {"head", "done"} /\ ExternalProbeFails) =>
       external[r] = [ok |-> FALSE,
                      error |-> IF extEnv = "notjson" THEN PARSE_MESSAGE
                                ELSE FailureMessage(extEnv)]

\* a completed run has a result of every category
AllCategories(r) ==
  Done(r) =>
     /\ Len(localResults[r]) = Len(LOCAL_PORTS)
     /\ external[r] # None
     /\ net[r] # None
     /\ HasButton(r, "Run checks again")

\* C7 as stated: every failed network operation, the reachability probe of
\* the adapter check included, yields a failed result holding the error
\* message, and the run goes on to its end.
C7_Original ==
  \A r \in Runs :
     /\ NotAborted(r)
     /\ ProbeFailuresCaptured(r)
     /\ AllCategories(r)
     /\ (Done(r) /\ onLine /\ headEnv # "ok") =>
          /\ "error" \in DOMAIN net[r]
          /\ net[r].error = FailureMessage(headEnv)

\* C7 as amended: failures of the local-port and external probes yield failed
\* results holding the error message; a failure of the reachability probe is
\* recorded as {online:true, check:'failed'} without the message; no failure
\* aborts the run, and a completed run has results of all four categories.
C7_FailuresContained ==
  \A r \in Runs :
     /\ NotAborted(r)
     /\ ProbeFailuresCaptured(r)
     /\ AllCategories(r)
     /\ (Done(r) /\ onLine /\ headEnv # "ok") =>
          net[r] = [online |-> TRUE, check |-> "failed"]

\* a completed run in which a port, the external probe and the reachability
\* probe all failed
C7_Witness ==
  \E r \in Runs :
     /\ Done(r)
     /\ \E i \in 1..Len(localResults[r]) : ~localResults[r][i].ok
     /\ ~external[r].ok
     /\ net[r] = [online |-> TRUE, check |-> "failed"]

\* C8: the protocol check renders its warning exactly when the scheme is
\* file: and otherwise reports the scheme; it issues no request.
C8_ProtocolCheck ==
  \A r \in Runs : (Started(r) /\ Newest(r)) =>
     /\ HasMessage(r, "warn", "Page loaded via file:// (local file).")
          <=> protocol = "file:"
     /\ HasMessage(r, "info", "Page opened over " \o protocol)
          <=> protocol # "file:"
     /\ \A i \in 1..Len(issued[r]) :
          issued[r][i] \in {LocalUrl(p) : p \in Ports} \cup {EXTERNAL_IP_URL, HEAD_URL}

C8_Witness ==
  \E r \in Runs :
     /\ Started(r) /\ Newest(r)
     /\ protocol = "https:"
     /\ HasMessage(r, "info", "Page opened over https:")

\* C9: after any number of completed runs none of which overlapped another,
\* the panel holds what one run renders: the rows and buttons of the newest
\* run and nothing of an earlier one.
C9_RerunIdempotent ==
  (Settled /\ ~overlapped) =>
     \A r \in Runs : r < nruns => (messages[r] = <<>> /\ actions[r] = <<>>)

\* C10: a request whose timeout has fired is no longer in flight.
C10_TimeoutCancelsRequest == \A q \in inflight : q \in timers


\* C11: the external check returns ok:true, with the IP, only for a JSON body
\* that holds an ip; a timeout, a network failure, a body that is not JSON and
\* a JSON body without ip all give ok:false with the error.
C11_ExternalResult ==
  \A r \in Runs : pc[r] \in {"head", "done"} =>
     /\ external[r].ok => (extEnv = "ip" /\ external[r].ip = PUBLIC_IP)
     /\ extEnv \in {"slow", "fail", "notjson", "noip"} =>
          (~external[r].ok /\ "error" \in DOMAIN external[r])

\* C12: online and the reachability probe fails or times out: the result is
\* {online:true, check:'failed'} and the reconnect finding is not rendered;
\* the probe succeeds: the result is {online:true, check:'ok'}.
C12_ProbeFailureKeepsOnline ==
  \A r \in Runs : (Done(r) /\ onLine) =>
     /\ headEnv \in {"fail", "slow"} => net[r] = [online |-> TRUE, check |-> "failed"]
     /\ headEnv = "ok" => net[r] = [online |-> TRUE, check |-> "ok"]
     /\ Newest(r) => ~HasMessage(r, "error", OFFLINE_FINDING)

\* online, the reachability probe timed out
C12_Witness ==
  \E r \in Runs :
     /\ Done(r) /\ Newest(r) /\ onLine /\ headEnv = "slow"
     /\ net[r] = [online |-> TRUE, check |-> "failed"]
     /\ HasMessage(r, "warn", "Connectivity test failed")

\* the URLs one run fetches, in order
RunTargets ==
  [i \in 1..Len(LOCAL_PORTS) |-> LocalUrl(LOCAL_PORTS[i])] \o <<EXTERNAL_IP_URL, HEAD_URL>>

IsPrefix(s, t) == Len(s) <= Len(t) /\ \A i \in 1..Len(s) : s[i] = t[i]

\* C13: a run fetches every target once at most: one request per configured
\* port, one to the external endpoint, one at most to the well-known host;
\* no target is fetched a second time by the same run.
C13_NoRetry ==
  \A r \in Runs :
     /\ IsPrefix(issued[r], RunTargets)
     /\ LocalReturned(r) => Len(issued[r]) >= Len(LOCAL_PORTS) + 1
     /\ Done(r) => Len(issued[r]) = Len(LOCAL_PORTS) + (IF onLine THEN 2 ELSE 1)

\* a completed run in which every probe failed, and a second run was started
C13_Witness ==
  /\ nruns = 2 /\ Done(1) /\ Started(2)
  /\ \A p \in Ports : portEnv[p] # "ok"
  /\ extEnv = "fail" /\ onLine /\ headEnv = "fail"
  /\ issued[1] = RunTargets
  /\ issued[2] # <<>>

\* the rows that report the result of each check category
CategoryRows ==
  << {"Page loaded via file:// (local file).", "Page opened over " \o protocol},
     {"Local dev server detected", "No local dev server detected"},
     {"External connectivity OK", "Unable to fetch external IP"},
     {"Network appears offline", "Network adapter: online"} >>

\* C14: a finding is in the panel only for a run that has reached its end;
\* in the rows of the newest run every finding comes after the result rows of
\* the four categories, and only findings follow a finding.
C14_FindingsAfterResults ==
  \A r \in Runs : \A i \in 1..Len(messages[r]) :
     messages[r][i].text \in Findings =>
        /\ Done(r)
        /\ \A j \in i..Len(messages[r]) : messages[r][j].text \in Findings
        /\ Newest(r) =>
             \A c \in 1..Len(CategoryRows) :
                \E j \in 1..(i - 1) : messages[r][j].text \in CategoryRows[c]

\* a completed run that shows two findings
C14_Witness ==
  \E r \in Runs :
     /\ Done(r) /\ Newest(r)
     /\ HasMessage(r, "warn", FILE_FINDING)
     /\ HasMessage(r, "error", OFFLINE_FINDING)

RowCount(r, texts) ==
  Cardinality({i \in 1..Len(messages[r]) : messages[r][i].text \in texts})

\* C16: once the ports are probed the run shows "Local dev server detected"
\* exactly when some port responded and "No local dev server detected"
\* otherwise: one of the two rows, once.
C16_LocalFinding ==
  \A r \in Runs : Newest(r) =>
     /\ RowCount(r, CategoryRows[2]) = (IF LocalReturned(r) THEN 1 ELSE 0)
     /\ LocalReturned(r) =>
          /\ HasMessage(r, "info", "Local dev server detected")
               <=> \E p \in Ports : portEnv[p] = "ok"
          /\ HasMessage(r, "warn", "No local dev server detected")
               <=> \A p \in Ports : portEnv[p] # "ok"

\* port 5500 is down, port 3000 answers
C16_Witness ==
  \E r \in Runs :
     /\ Newest(r) /\ LocalReturned(r)
     /\ portEnv[5500] = "fail" /\ portEnv[3000] = "ok"
     /\ HasMessage(r, "info", "Local dev server detected")

\* the probes of invocation r that wait for a response
AwaitedProbes(r) == {q \in timers : q.run = r}

\* C20: a run has one probe at most waiting for a response, and a probe is
\* issued only when the probe before it has resolved or timed out: the
\* order is the ports as configured, the external endpoint, the adapter.
C20_Sequential ==
  \A r \in Runs :
     /\ Cardinality(AwaitedProbes(r)) <= 1
     /\ pc[r] = "local" =>
          /\ AwaitedProbes(r) = {Req(r, LocalUrl(LOCAL_PORTS[idx[r]]))}
          /\ Len(localResults[r]) = idx[r] - 1
          /\ Len(issued[r]) = idx[r]
          /\ external[r] = None /\ net[r] = None
     /\ pc[r] = "external" =>
          /\ AwaitedProbes(r) = {Req(r, EXTERNAL_IP_URL)}
          /\ Len(localResults[r]) = Len(LOCAL_PORTS)
          /\ external[r] = None /\ net[r] = None
     /\ pc[r] = "head" =>
          /\ AwaitedProbes(r) = {Req(r, HEAD_URL)}
          /\ Len(localResults[r]) = Len(LOCAL_PORTS)
          /\ external[r] # None /\ net[r] = None
     /\ pc[r] \in {"idle", "json", "done"} => AwaitedProbes(r) = {}

\* the third port is probed after the second one timed out and while its
\* abandoned request is still in flight
C20_Witness ==
  \E r \in Runs :
     /\ pc[r] = "local" /\ idx[r] = 3
     /\ localResults[r][2] = [port |-> 3000, ok |-> FALSE, info |-> TIMEOUT_MESSAGE]
     /\ Req(r, LocalUrl(3000)) \in Abandoned


\* C15: whatever document.readyState is when the script executes, an
\* automatic run has started once DOMContentLoaded has been dispatched.
C15_OneAutomaticRun == loaded => Started(1)

\* C17: the document holds one element with id dev-diagnostics-panel at
\* most; every row and every button is in it, after any sequence of runs,
\* reruns, message additions and button callbacks.
C17_OnePanel ==
  /\ panel <= 1
  /\ (nruns >= 1 /\ hasBody) => panel = 1
  /\ (\/ extra # <<>>
      \/ \E r \in Runs : messages[r] # <<>> \/ actions[r] # <<>>) => panel = 1

\* a rerun and two button callbacks after it
C17_Witness ==
  /\ panel = 1 /\ nruns = 2 /\ Done(2)
  /\ Len(extra) = 2
  /\ extra[1].text = "macOS proxy check"
  /\ extra[2].text = "Checklist copied to clipboard"

\* C18: a run that fails to initialise (no document body for the panel) is
\* logged with logError and shown as the "Diagnostics error" row.
C18_StartupErrorSurfaced ==
  \A r \in Runs : pc[r] = "rejected" =>
     /\ errorLog # <<>>
     /\ HasMessage(r, "error", "Diagnostics error")


\* endpoints that answer with an HTTP success status
HttpSuccess(i) == healthEnv[i] \in {"json", "text", "badjson"}

\* endpoints that answer with an HTTP success status and a body that reads
Usable(i) == healthEnv[i] \in {"json", "text"}

\* the error that endpoint i leaves in lastErr
HealthError(i) ==
  CASE healthEnv[i] = "http404" -> "HTTP 404 Not Found from " \o urlsToTry[i]
    [] healthEnv[i] = "fail" -> NETWORK_MESSAGE
    [] healthEnv[i] = "slow" -> ABORT_MESSAGE
    [] healthEnv[i] = "badjson" -> PARSE_MESSAGE
    [] OTHER -> ""

\* the endpoints are tried in the order api/health, health, base
HealthOrder(u) == IsPrefix(hissued[u], urlsToTry)

\* as the claim C19 states it: the first endpoint with an HTTP success status
\* gives the result, and no later endpoint is requested
C19_Original ==
  \A u \in Updates :
     /\ HealthOrder(u)
     /\ \A i \in 1..Len(hissued[u]) : \A j \in 1..(i - 1) : ~HttpSuccess(j)
     /\ hpc[u] = "returned" => hresult[u].url = urlsToTry[Len(hissued[u])]

\* C19: fetchServerHealth requests api/health, health and the base URL in
\* this order; it returns the result of the first endpoint that answers with
\* an HTTP success status and a body that can be read, and requests no later
\* endpoint; an endpoint that answers with another status, fails, times out
\* or sends a body that cannot be read is skipped; when none is left it
\* throws the error of the last endpoint.
C19_FirstUsableEndpoint ==
  \A u \in Updates :
     /\ HealthOrder(u)
     /\ \A i \in 1..Len(hissued[u]) : \A j \in 1..(i - 1) : ~Usable(j)
     /\ hpc[u] = "returned" =>
          LET k == Len(hissued[u])
          IN /\ Usable(k)
             /\ hresult[u] = [url |-> urlsToTry[k], ok |-> TRUE,
                              data |-> IF healthEnv[k] = "json" THEN HEALTH_JSON
                                       ELSE HEALTH_TEXT]
     /\ hpc[u] = "threw" =>
          /\ hissued[u] = urlsToTry
          /\ \A i \in 1..3 : ~Usable(i)
          /\ hresult[u] = [ok |-> FALSE, error |-> Error(HealthError(3))]

\* api/health answers 404, health sends a body that is not JSON, the base
\* URL answers with text
C19_Witness ==
  \E u \in Updates :
     /\ healthEnv = <<"http404", "badjson", "text">>
     /\ hpc[u] = "returned"
     /\ hresult[u].url = BACKEND_BASE
     /\ hissued[u] = urlsToTry


\* C21: every run that has started reaches its end (the heuristic step and
\* the "Run checks again" button), whatever the endpoints do, an external
\* endpoint whose body never finishes included; timers fire.
C21_RunCompletes ==
  \A r \in 1..MaxRuns :
     Started(r) ~> (Done(r) /\ HasButton(r, "Run checks again"))


\* C22: a request of the diagnostics settles its promise once, with the
\* first of response, failure and timer: an armed timer belongs to a promise
\* that is still awaited (no timer fires after a response), and the late
\* settlement of a request whose timer has fired changes no check result, no
\* row, no button and no position of a run.
C22_SettlesOnce ==
  /\ [](\A q \in timers :
          /\ pc[q.run] \in {"local", "external", "head"}
          /\ q.url = AwaitedUrl(q.run)
          /\ q \in inflight)
  /\ [][\A q \in Abandoned : q \notin inflight' =>
          /\ pc' = pc /\ idx' = idx
          /\ localResults' = localResults
          /\ external' = external /\ net' = net
          /\ messages' = messages /\ actions' = actions
          /\ timers' = timers /\ issued' = issued]_vars

\* port 5500 timed out, its response has arrived since, and the run has
\* ended with the timeout as the result of the port
C22_Witness ==
  \E r \in Runs :
     /\ Done(r) /\ portEnv[5500] = "slow"
     /\ Req(r, LocalUrl(5500)) \notin inflight
     /\ Len(localResults[r]) = Len(LOCAL_PORTS)
     /\ localResults[r][1] = [port |-> 5500, ok |-> FALSE, info |-> TIMEOUT_MESSAGE]


\* C23: no run shows both the file-origin finding and the proxy finding,
\* whatever the scheme, the port list (the empty one included) and the
\* results of the probes.
C23_FindingsExclusive ==
  \A r \in Runs :
     ~(HasMessage(r, "warn", FILE_FINDING) /\ HasMessage(r, "warn", PROXY_FINDING))

\* an empty port list, a file: page and an external probe that failed: the
\* file-origin finding alone
C23_Witness ==
  /\ pc[1] = "done" /\ localResults[1] = <<>>
  /\ protocol = "file:" /\ ~external[1].ok
  /\ HasMessage(1, "warn", FILE_FINDING)
  /\ ~HasMessage(1, "warn", PROXY_FINDING)


\* C24: a rerun starts only when some run has reached its end and left the
\* "Run checks again" button: the automatic run has ended before a second
\* run starts, so no run overlaps it; an overlap needs a third run, started
\* with the button of an earlier run while the second is suspended.
C24_RerunAfterCompletion ==
  /\ nruns >= 2 => (Done(1) /\ HasButton(1, "Run checks again"))
  /\ overlapped => nruns >= 3
  /\ \A r \in Runs : (Started(r) /\ ~Done(r)) =>
        \A o \in Runs : (o < r) => Done(o) \/ (o > 1 /\ overlapped)

\* the third run was started while the second was awaiting a probe
C24_Witness ==
  /\ nruns = 3 /\ overlapped
  /\ Done(1) /\ pc[2] \in Awaiting /\ pc[3] \in Awaiting


\* every update that was started has returned or thrown
UpdatesSettled ==
  /\ nupdates >= 1
  /\ \A u \in 1..nupdates : hpc[u] \in {"returned", "threw"}

\* the text showStatus gives to the outcome of an update
StatusOf(res) ==
  IF res.ok
  THEN "OK - " \o (IF "string" \in DOMAIN res.data THEN res.data.string ELSE res.data.message)
         \o " (from " \o res.url \o ")"
  ELSE "ERROR - " \o res.error.message

\* C25: when every update that was started has settled, whatever the
\* Refresh clicks were, #server-status shows an OK or ERROR text, not
\* "Checking server...", with one of the classes ok and error, and the text
\* is the outcome of the update that was started last.
C25_LastUpdateShown ==
  UpdatesSettled =>
     /\ statusText # "Checking server..."
     /\ statusClass \in {{"ok"}, {"error"}}
     /\ statusText = StatusOf(hresult[nupdates])
     /\ statusClass = {IF hresult[nupdates].ok THEN "ok" ELSE "error"}

====
